---- MODULE Spec2Model ----
(***************************************************************************)
(* Model of difftastic.nvim's diff orchestration (src/src/lib.rs): the     *)
(* range parsers, the display-path splitter, the rename-status parsers,    *)
(* and run_diff_impl with its parallel per-file workers and its rename     *)
(* reconciliation pass.  Paths, ranges and command outputs are strings,    *)
(* and the string functions are computed character by character as the     *)
(* Rust code computes them.  A value the code binds with `let` and uses    *)
(* several times is passed here as an operator argument.                   *)
(***************************************************************************)
EXTENDS Integers, Sequences, FiniteSets, TLC

VARIABLES
    mode,           \* DiffMode of the call: "Range", "Unstaged", "Staged"
    vcs,            \* "git" or "jj"
    range,          \* the range string of DiffMode::Range ("" otherwise)
    pc,             \* position of run_diff_impl
    listing,        \* what the diff-listing command did: "spawn_fail", "nonzero", "parse_fail", "ok"
    files,          \* the raw file list returned by difftastic::parse
    stats,          \* FileStats: path -> <<additions, deletions>>
    refs,           \* <<old_ref, new_ref>> of the Range arms' content lookups
    wpc,            \* position of each per-file worker
    slots,          \* result slot of each per-file worker
    display_files,  \* the collected Vec<DisplayFile>
    renames,        \* the rename map (new path -> old path)
    result,         \* what the call returned, Pending until it returns
    failed,         \* kinds of best-effort commands that failed in this call
    issued,         \* the commands spawned so far: [cmd, by, phase]
    fn,             \* pure-function harness: which function is applied
    fnIn,           \* its input
    fnOut           \* its output

callVars == <<mode, vcs, range, pc, listing, files, stats, refs, wpc, slots,
              display_files, renames, result, failed, issued>>
fnVars == <<fn, fnIn, fnOut>>
vars == <<mode, vcs, range, pc, listing, files, stats, refs, wpc, slots,
          display_files, renames, result, failed, issued, fn, fnIn, fnOut>>

(***************************************************************************)
(* Option<T>: None is the empty tuple, Some(x) the one-element tuple.      *)
(***************************************************************************)
None == <<>>
Some(x) == <<x>>
IsSome(o) == o # <<>>
OrElse(a, b) == IF IsSome(a) THEN a ELSE b

(***************************************************************************)
(* str primitives of the Rust standard library, on TLA+ strings.           *)
(***************************************************************************)
SetMin(S) == CHOOSE x \in S : \A y \in S : x <= y
SetMax(S) == CHOOSE x \in S : \A y \in S : x >= y

CharAt(s, i) == SubSeq(s, i, i)

\* positions at which pat occurs in s
Occurrences(s, pat) ==
    {i \in 1..(Len(s) - Len(pat) + 1) : SubSeq(s, i, i + Len(pat) - 1) = pat}

FirstOf(occ) == IF occ = {} THEN 0 ELSE SetMin(occ)
LastOf(occ) == IF occ = {} THEN 0 ELSE SetMax(occ)

\* str::find: 1-based index of the first occurrence, 0 for None
Find(s, pat) == FirstOf(Occurrences(s, pat))

\* str::rfind: 1-based index of the last occurrence, 0 for None
RFind(s, pat) == LastOf(Occurrences(s, pat))

SplitAt(s, i, n) ==
    IF i = 0 THEN None
    ELSE Some(<<SubSeq(s, 1, i - 1), SubSeq(s, i + n, Len(s))>>)

\* str::split_once: splits at the first occurrence of pat
split_once(s, pat) == SplitAt(s, Find(s, pat), Len(pat))

IsWhitespace(c) == c \in {" ", "\t", "\n", "\r"}

Span(s, keep) == IF keep = {} THEN "" ELSE SubSeq(s, SetMin(keep), SetMax(keep))

\* str::trim
trim(s) == Span(s, {i \in 1..Len(s) : ~IsWhitespace(CharAt(s, i))})

starts_with(s, p) == Len(p) <= Len(s) /\ SubSeq(s, 1, Len(p)) = p

\* str::strip_prefix
strip_prefix(s, p) ==
    IF starts_with(s, p) THEN Some(SubSeq(s, Len(p) + 1, Len(s))) ELSE None

\* str::split(pat).collect(): always at least one piece
RECURSIVE split(_, _)
SplitRest(s, pat, i) ==
    IF i = 0 THEN <<s>>
    ELSE <<SubSeq(s, 1, i - 1)>> \o split(SubSeq(s, i + Len(pat), Len(s)), pat)

split(s, pat) == SplitRest(s, pat, Find(s, pat))

StripCR(s) ==
    IF Len(s) > 0 /\ CharAt(s, Len(s)) = "\r" THEN SubSeq(s, 1, Len(s) - 1) ELSE s

\* str::lines: pieces ended by "\n" (a "\r" before it dropped), no piece for a
\* trailing empty remainder
RECURSIVE lines(_)
LinesRest(s, i) ==
    IF i = 0 THEN <<StripCR(s)>>
    ELSE <<StripCR(SubSeq(s, 1, i - 1))>> \o lines(SubSeq(s, i + 1, Len(s)))

lines(s) == IF s = "" THEN <<>> ELSE LinesRest(s, Find(s, "\n"))

IsHexDigit(c) ==
    c \in {"0", "1", "2", "3", "4", "5", "6", "7", "8", "9",
           "a", "b", "c", "d", "e", "f", "A", "B", "C", "D", "E", "F"}

NonEmptyPair(l, r) == IF l # "" /\ r # "" THEN Some(<<l, r>>) ELSE None

(***************************************************************************)
(* parse_jj_range, lib.rs 187-193                                          *)
(***************************************************************************)
\* a parser that trims the two sides before it looks at them
JjRangeOfTrimmed(sp) ==
    IF IsSome(sp) THEN NonEmptyPair(trim(sp[1][1]), trim(sp[1][2])) ELSE None

JjRangeOf(sp) == IF IsSome(sp) THEN NonEmptyPair(sp[1][1], sp[1][2]) ELSE None

parse_jj_range(revset) == JjRangeOf(split_once(revset, ".."))

(***************************************************************************)
(* parse_git_range, lib.rs 448-457.  mb is what git_merge_base(a, b)       *)
(* returned: None when the command failed, Some(trimmed stdout) otherwise. *)
(***************************************************************************)
\* a parser that looks for ".." before "..."
GitRangeOfTwoDotsFirst(rng, mb, three, two) ==
    IF IsSome(two)
    THEN <<two[1][1], two[1][2]>>
    ELSE IF IsSome(three)
    THEN <<IF IsSome(mb) THEN mb[1] ELSE three[1][1] \o "^", three[1][2]>>
    ELSE <<rng \o "^", rng>>

GitRangeOf(rng, mb, three, two) ==
    IF IsSome(three)
    THEN <<IF IsSome(mb) THEN mb[1] ELSE three[1][1] \o "^", three[1][2]>>
    ELSE IF IsSome(two)
    THEN <<two[1][1], two[1][2]>>
    ELSE <<rng \o "^", rng>>

parse_git_range(rng, mb) ==
    GitRangeOf(rng, mb, split_once(rng, "..."), split_once(rng, ".."))

(***************************************************************************)
(* split_display_path, lib.rs 298-330                                      *)
(***************************************************************************)
Arrows == <<" => ", " -> ">>

\* split_once(arrow) guarded by both sides being non-empty after trim
ArrowSides(sp) ==
    IF IsSome(sp) THEN NonEmptyPair(trim(sp[1][1]), trim(sp[1][2])) ELSE None

ArrowSplit(s, arrow) == ArrowSides(split_once(s, arrow))

\* the first arrow of Arrows, in order, that splits s
FirstArrowSplit(s) == OrElse(ArrowSplit(s, Arrows[1]), ArrowSplit(s, Arrows[2]))

BraceJoin(prefix, suffix, sp) ==
    IF IsSome(sp)
    THEN Some(<<prefix \o sp[1][1] \o suffix, prefix \o sp[1][2] \o suffix>>)
    ELSE None

BraceAt(raw, open, close) ==
    IF open # 0 /\ close # 0 /\ close > open
    THEN BraceJoin(SubSeq(raw, 1, open - 1), SubSeq(raw, close + 1, Len(raw)),
                   FirstArrowSplit(SubSeq(raw, open + 1, close - 1)))
    ELSE None

BraceSplit(raw) == BraceAt(raw, Find(raw, "{"), RFind(raw, "}"))

\* a splitter that tries the flat arrow before the braces
SplitOrArrowFirst(path, brace, arrow) ==
    IF IsSome(arrow) THEN arrow[1]
    ELSE IF IsSome(brace) THEN brace[1]
    ELSE <<path, path>>

SplitOr(path, brace, arrow) ==
    IF IsSome(brace) THEN brace[1]
    ELSE IF IsSome(arrow) THEN arrow[1]
    ELSE <<path, path>>

split_display_path(path) == SplitOr(path, BraceSplit(path), FirstArrowSplit(path))

(***************************************************************************)
(* Rename-status parsers, lib.rs 362-398.  A HashMap<PathBuf, PathBuf> is  *)
(* a set of <<key, value>> pairs with one pair per key; collect() inserts  *)
(* the pairs in line order, a later pair replacing an earlier one with the *)
(* same key.                                                               *)
(***************************************************************************)
EmptyMap == {}

Keys(m) == {p[1] : p \in m}

Values(m) == {p[2] : p \in m}

Get(m, k) == (CHOOSE p \in m : p[1] = k)[2]

Insert(m, k, v) == {p \in m : p[1] # k} \cup {<<k, v>>}

\* (old_path != new_path).then_some((old_path, new_path))
IfMoved(sp) == IF sp[1] # sp[2] THEN Some(sp) ELSE None

JjRenameOf(renamed) ==
    IF IsSome(renamed) THEN IfMoved(split_display_path(renamed[1])) ELSE None

parse_jj_summary_rename(line) == JjRenameOf(strip_prefix(trim(line), "R "))

GitRenameOf(parts) ==
    IF ~starts_with(parts[1], "R") THEN None
    ELSE IF Len(parts) < 3 THEN None
    ELSE NonEmptyPair(trim(parts[2]), trim(parts[3]))

parse_git_name_status_rename(line) == GitRenameOf(split(trim(line), "\t"))

\* .map(|(old_path, new_path)| (new_path, old_path)) into the map
InsertSwapped(m, p) == IF IsSome(p) THEN Insert(m, p[1][2], p[1][1]) ELSE m

RECURSIVE CollectJj(_, _)
CollectJj(ls, m) ==
    IF ls = <<>> THEN m
    ELSE CollectJj(Tail(ls), InsertSwapped(m, parse_jj_summary_rename(Head(ls))))

RECURSIVE CollectGit(_, _)
CollectGit(ls, m) ==
    IF ls = <<>> THEN m
    ELSE CollectGit(Tail(ls), InsertSwapped(m, parse_git_name_status_rename(Head(ls))))

parse_jj_summary_renames(output) == CollectJj(lines(output), EmptyMap)

parse_git_name_status_renames(output) == CollectGit(lines(output), EmptyMap)

(***************************************************************************)
(* jj_to_git_commit, lib.rs 158-182.  out is the outcome of the jj log     *)
(* command: None when it could not be spawned or exited non-zero,          *)
(* Some(stdout) otherwise.                                                 *)
(***************************************************************************)
NonEmptyTrimmed(ls) == SelectSeq([i \in 1..Len(ls) |-> trim(ls[i])], LAMBDA l : l # "")

CommitLen == 40

ValidHash(commit) ==
    IF Len(commit) = CommitLen /\ \A i \in 1..Len(commit) : IsHexDigit(CharAt(commit, i))
    THEN Some(commit)
    ELSE None

\* a translation that takes the first of several lines
FirstCommit(commits) == IF Len(commits) = 0 THEN None ELSE ValidHash(commits[1])

OneCommit(commits) == IF Len(commits) # 1 THEN None ELSE ValidHash(commits[1])

jj_to_git_commit(out) ==
    IF IsSome(out) THEN OneCommit(NonEmptyTrimmed(lines(out[1]))) ELSE None

(***************************************************************************)
(* git_diff_stats, lib.rs 122-142: the numstat parser.                     *)
(***************************************************************************)
Digits == <<"0", "1", "2", "3", "4", "5", "6", "7", "8", "9">>

DigitValue(c) == (CHOOSE i \in 1..10 : Digits[i] = c) - 1

IsDigit(c) == \E i \in 1..10 : Digits[i] = c

\* a u32 is kept as its decimal digits without leading zeros
RECURSIVE Canonical(_)
Canonical(s) ==
    IF Len(s) > 1 /\ CharAt(s, 1) = "0" THEN Canonical(SubSeq(s, 2, Len(s))) ELSE s

U32MaxDigits == "4294967295"

\* a <= b for digit strings of the same length
RECURSIVE DigitsLeq(_, _)
DigitsLeq(a, b) ==
    IF a = "" THEN TRUE
    ELSE IF CharAt(a, 1) # CharAt(b, 1)
    THEN DigitValue(CharAt(a, 1)) < DigitValue(CharAt(b, 1))
    ELSE DigitsLeq(SubSeq(a, 2, Len(a)), SubSeq(b, 2, Len(b)))

FitsU32(c) ==
    \/ Len(c) < Len(U32MaxDigits)
    \/ Len(c) = Len(U32MaxDigits) /\ DigitsLeq(c, U32MaxDigits)

U32Of(body) ==
    IF body # "" /\ (\A i \in 1..Len(body) : IsDigit(CharAt(body, i)))
       /\ FitsU32(Canonical(body))
    THEN Some(Canonical(body))
    ELSE None

\* str::parse::<u32>: an optional "+", then one or more digits, in range
parse_u32(s) == U32Of(IF starts_with(s, "+") THEN SubSeq(s, 2, Len(s)) ELSE s)

NumstatEntry(add, del, path) ==
    IF IsSome(add) /\ IsSome(del) THEN Some(<<path, <<add[1], del[1]>>>>) ELSE None

NumstatOf(parts) ==
    IF Len(parts) < 3 THEN None
    ELSE NumstatEntry(parse_u32(parts[1]), parse_u32(parts[2]), parts[3])

numstat_line(line) == NumstatOf(split(line, "\t"))

InsertEntry(m, p) == IF IsSome(p) THEN Insert(m, p[1][1], p[1][2]) ELSE m

RECURSIVE CollectStats(_, _)
CollectStats(ls, m) ==
    IF ls = <<>> THEN m
    ELSE CollectStats(Tail(ls), InsertEntry(m, numstat_line(Head(ls))))

\* out: None when git diff --numstat failed, Some(stdout) otherwise
git_diff_stats(out) ==
    IF IsSome(out) THEN CollectStats(lines(out[1]), EmptyMap) ELSE EmptyMap

\* jj_diff_stats_uncommitted, lib.rs 145-154: the output is dropped
jj_diff_stats_uncommitted(out) == EmptyMap

(***************************************************************************)
(* The command lines the adapter functions spawn.                          *)
(***************************************************************************)
run_git_diff_cmd(extra) == <<"git", "-c", "diff.external=difft", "diff">> \o extra
run_jj_diff_cmd(revset) == <<"jj", "diff", "-r", revset, "--tool", "difft">>
run_jj_diff_uncommitted_cmd == <<"jj", "diff", "--tool", "difft">>
git_diff_stats_cmd(extra) == <<"git", "diff", "--numstat">> \o extra
jj_diff_stats_uncommitted_cmd == <<"jj", "diff", "--stat">>
jj_to_git_commit_cmd(revset) == <<"jj", "log", "-r", revset, "--no-graph", "-T", "commit_id">>
git_merge_base_cmd(a, b) == <<"git", "merge-base", a, b>>
git_file_content_cmd(commit, path) == <<"git", "show", commit \o ":" \o path>>
git_index_content_cmd(path) == <<"git", "show", ":" \o path>>
jj_file_content_cmd(revset, path) == <<"jj", "file", "show", "-r", revset, path>>
git_root_cmd == <<"git", "rev-parse", "--show-toplevel">>
jj_root_cmd == <<"jj", "root">>
\* not a command: the read of root.join(path), made once the root is known
read_to_string_cmd(path) == <<"read_to_string", path>>

git_rename_map_cmd(m, rng) ==
    <<"git", "diff", "--name-status", "-M">>
        \o (IF m = "Range" THEN <<rng>> ELSE IF m = "Staged" THEN <<"--cached">> ELSE <<>>)

jj_rename_map_cmd(m, rng) ==
    <<"jj", "diff">>
        \o (IF m = "Range" THEN <<"-r", rng>> ELSE IF m = "Staged" THEN <<"-r", "@">> ELSE <<>>)
        \o <<"--summary">>

\* out: None when the rename-status command failed, Some(stdout) otherwise
git_rename_map(out) ==
    IF IsSome(out) THEN parse_git_name_status_renames(out[1]) ELSE EmptyMap

jj_rename_map(out) ==
    IF IsSome(out) THEN parse_jj_summary_renames(out[1]) ELSE EmptyMap

\* one spawned command: its command line, the thread that spawned it (0 is the
\* calling thread, i the worker of file i) and the phase of the call
Spawned(cmd, by, phase) == [cmd |-> cmd, by |-> by, phase |-> phase]

SpawnAll(cmds, by, phase) == {Spawned(c, by, phase) : c \in cmds}

(***************************************************************************)
(* Single-file content lookups, lib.rs 58-90 and 470-473.  The content of  *)
(* a file is named by where it was read from; ok says whether the command  *)
(* (or the read) succeeded.  A failure is None, never an error.            *)
(***************************************************************************)
git_file_content(commit, path, ok) ==
    IF ok THEN Some(<<"git", commit, path>>) ELSE None

git_index_content(path, ok) ==
    IF ok THEN Some(<<"index", "", path>>) ELSE None

jj_file_content(revset, path, ok) ==
    IF ok THEN Some(<<"jj", revset, path>>) ELSE None

\* rootOk: the root lookup succeeded; ok: read_to_string succeeded
working_tree_content_for_vcs(path, v, rootOk, ok) ==
    IF rootOk /\ ok THEN Some(<<"worktree", v, path>>) ELSE None

\* into_lines, lib.rs 50-54: no content gives no lines
into_lines(content) == IF IsSome(content) THEN <<content[1]>> ELSE <<>>

(***************************************************************************)
(* Files.  A raw entry (difftastic::DifftFile) has a path, a status and    *)
(* its hunks (chunks, opaque here); a DisplayFile is what process_file     *)
(* makes of it.                                                            *)
(***************************************************************************)
Statuses == {"Unchanged", "Created", "Deleted", "Modified"}

\* a preparation that keeps the status the listing reported
PreparedKeepingStatus(file, st, sp) ==
    [file |-> IF sp[1] # sp[2] THEN [file EXCEPT !.path = sp[2]] ELSE file,
     file_stats |-> IF file.path \in Keys(st) THEN Some(Get(st, file.path)) ELSE None,
     old_path |-> sp[1],
     new_path |-> sp[2],
     moved_from |-> IF sp[1] # sp[2] THEN Some(sp[1]) ELSE None]

\* lib.rs 336-347, given the split of file.path
Prepared(file, st, sp) ==
    [file |-> IF sp[1] # sp[2]
              THEN [file EXCEPT !.path = sp[2], !.status = "Created"]
              ELSE file,
     file_stats |-> IF file.path \in Keys(st) THEN Some(Get(st, file.path)) ELSE None,
     old_path |-> sp[1],
     new_path |-> sp[2],
     moved_from |-> IF sp[1] # sp[2] THEN Some(sp[1]) ELSE None]

\* prepare_file_for_display, lib.rs 332-348
prepare_file_for_display(file, st) == Prepared(file, st, split_display_path(file.path))

\* processor::process_file: the alignment engine keeps the entry's path and
\* status and lays out its hunks against the old and new lines; the rows it
\* lays out are not part of the DisplayFile modelled here
process_file(file, old_lines, new_lines, file_stats) ==
    [path |-> file.path, status |-> file.status, chunks |-> file.chunks,
     stats |-> file_stats, moved_from |-> None]

\* process_prepared_file, lib.rs 350-360
process_prepared_file(file, old_lines, new_lines, file_stats, moved_from) ==
    [process_file(file, old_lines, new_lines, file_stats) EXCEPT !.moved_from = moved_from]

(***************************************************************************)
(* The rename pass over the collected list, lib.rs 591-609.                *)
(***************************************************************************)
\* lib.rs 597-600
ApplyRenameKeepingStatus(file, rn) ==
    IF file.path \in Keys(rn)
    THEN [file EXCEPT !.moved_from = Some(Get(rn, file.path))]
    ELSE file

ApplyRename(file, rn) ==
    IF file.path \in Keys(rn)
    THEN [file EXCEPT !.moved_from = Some(Get(rn, file.path)), !.status = "Created"]
    ELSE file

\* lib.rs 602-606, old_paths being the values of the map
DropDeletedOld(file, old_paths) ==
    IF file.status = "Deleted" /\ file.path \in old_paths THEN None ELSE Some(file)

\* the filter_map closure: Some(file) to keep it, None to drop it
reconcile_file(file, rn) == DropDeletedOld(ApplyRename(file, rn), Values(rn))

Cons(opt, rest) == (IF IsSome(opt) THEN <<opt[1]>> ELSE <<>>) \o rest

RECURSIVE filter_map_reconcile(_, _)
filter_map_reconcile(fs, rn) ==
    IF fs = <<>> THEN <<>>
    ELSE Cons(reconcile_file(Head(fs), rn), filter_map_reconcile(Tail(fs), rn))

reconcile(fs, rn) == IF rn # EmptyMap THEN filter_map_reconcile(fs, rn) ELSE fs

\* into_par_iter().map(..).collect(): slot i holds the result for input i
\* a join that hands the slots back last first
collect_reversed(sl) == [i \in 1..Len(sl) |-> sl[Len(sl) + 1 - i][1]]

collect(sl) == [i \in 1..Len(sl) |-> sl[i][1]]

(***************************************************************************)
(* Results and the listing commands.                                       *)
(***************************************************************************)
Ok(v) == [tag |-> "Ok", val |-> v]
Err(msg) == [tag |-> "Err", val |-> msg]
Pending == [tag |-> "none", val |-> <<>>]

\* difftastic::parse on the stdout of a listing command
difftastic_parse(o) ==
    IF o.kind = "parse_fail" THEN Err("Failed to parse difftastic JSON") ELSE Ok(o.files)

\* a listing that does not look at the exit status
run_git_diff_any_status(o) ==
    IF o.kind = "spawn_fail" THEN Err("Failed to run git") ELSE difftastic_parse(o)

\* run_git_diff, lib.rs 262-280.  o is what the command did.
run_git_diff(o) ==
    IF o.kind = "spawn_fail" THEN Err("Failed to run git")
    ELSE IF o.kind = "nonzero" THEN Err("git command failed")
    ELSE difftastic_parse(o)

\* run_jj_diff and run_jj_diff_uncommitted, lib.rs 219-253
run_jj_diff(o) ==
    IF o.kind = "spawn_fail" THEN Err("Failed to run jj")
    ELSE IF o.kind = "nonzero" THEN Err("jj command failed")
    ELSE difftastic_parse(o)

(***************************************************************************)
(* jj_diff_stats, lib.rs 197-215.  oc and nc are the outcomes of the two   *)
(* jj log commands, so that of git diff --numstat.  The result names the   *)
(* commands spawned, the best-effort steps that failed, and the stats.     *)
(***************************************************************************)
JjOldRev(revset, rg) == IF IsSome(rg) THEN rg[1][1] ELSE "roots(" \o revset \o ")-"
JjNewRev(revset, rg) == IF IsSome(rg) THEN rg[1][2] ELSE "heads(" \o revset \o ")"

\* the range handed to git diff --numstat, if any
NumstatRange(rg, old_commit, new_commit) ==
    IF IsSome(old_commit) /\ IsSome(new_commit)
    THEN Some(old_commit[1] \o ".." \o new_commit[1])
    ELSE IF ~IsSome(rg) /\ IsSome(new_commit)
    THEN Some(new_commit[1] \o "^.." \o new_commit[1])
    ELSE None

JjStatsFor(old_rev, new_rev, old_commit, new_commit, numstat, so) ==
    [cmds |-> {jj_to_git_commit_cmd(old_rev), jj_to_git_commit_cmd(new_rev)}
                \cup (IF IsSome(numstat) THEN {git_diff_stats_cmd(<<numstat[1]>>)} ELSE {}),
     fails |-> (IF ~IsSome(old_commit) \/ ~IsSome(new_commit) THEN {"revset"} ELSE {})
                \cup (IF IsSome(numstat) /\ ~IsSome(so) THEN {"stats"} ELSE {}),
     stats |-> IF IsSome(numstat) THEN git_diff_stats(so) ELSE EmptyMap]

JjStats(revset, rg, old_commit, new_commit, so) ==
    JjStatsFor(JjOldRev(revset, rg), JjNewRev(revset, rg), old_commit, new_commit,
               NumstatRange(rg, old_commit, new_commit), so)

jj_diff_stats(revset, oc, nc, so) ==
    JjStats(revset, parse_jj_range(revset), jj_to_git_commit(oc), jj_to_git_commit(nc), so)

(***************************************************************************)
(* Inputs: the calls made and what the spawned commands answer.            *)
(***************************************************************************)
MaxFiles == 2

Modes == {"Range", "Unstaged", "Staged"}
VcsKinds == {"git", "jj"}
GitRanges == {"r", "a..b", "a...b"}
JjRanges == {"@", "a..b"}

PathPool == {"n", "o", "o => n"}

Paths(l) == {l[i].path : i \in 1..Len(l)}

Extensions(l) ==
    {Append(l, [path |-> p, status |-> st, chunks |-> Len(l) + 1]) :
        p \in PathPool \ Paths(l), st \in Statuses}

\* raw lists of at most n entries, one entry per reported path
OneMoreEntry(S, n) == S \cup UNION {Extensions(l) : l \in {x \in S : Len(x) = n - 1}}

RECURSIVE RawListsUpTo(_)
RawListsUpTo(n) == IF n = 0 THEN {<<>>} ELSE OneMoreEntry(RawListsUpTo(n - 1), n)

RawLists == RawListsUpTo(MaxFiles)

ListOutcomes ==
    {[kind |-> k, files |-> <<>>] : k \in {"spawn_fail", "nonzero", "parse_fail"}}
        \cup {[kind |-> "ok", files |-> l] : l \in RawLists}

MergeBaseOutcomes == {None, Some("m")}
StatsOutputs == {None, Some("1\t0\tn\n")}
CommitOutputs == {None, Some("0123456789abcdef0123456789abcdef01234567\n")}
GitRenameOutputs == {None, Some("R100\tx\ty\n"), Some("R100\to\tn\n"), Some("M\tn\n")}
JjRenameOutputs == {None, Some("R x => y\n"), Some("R o => n\n"), Some("M n\n")}

(***************************************************************************)
(* run_diff_impl, lib.rs 477-619.                                          *)
(***************************************************************************)
GitRangeArg(pr) == pr[1] \o ".." \o pr[2]

\* the arms of the first match, lib.rs 479-513: the commands spawned before
\* the listing (pre), the listing command, and the stats step
GitRangeArm(git_range, three, mb, so) ==
    [pre |-> IF IsSome(three) THEN {git_merge_base_cmd(three[1][1], three[1][2])} ELSE {},
     preFails |-> IF IsSome(three) /\ ~IsSome(mb) THEN {"merge_base"} ELSE {},
     listCmd |-> run_git_diff_cmd(<<git_range>>),
     statCmds |-> {git_diff_stats_cmd(<<git_range>>)},
     statFails |-> IF IsSome(so) THEN {} ELSE {"stats"},
     stats |-> git_diff_stats(so)]

ArmGitRange(mb, so) ==
    GitRangeArm(GitRangeArg(parse_git_range(range, mb)), split_once(range, "..."), mb, so)

JjArm(revset, js) ==
    [pre |-> {}, preFails |-> {},
     listCmd |-> run_jj_diff_cmd(revset),
     statCmds |-> js.cmds, statFails |-> js.fails, stats |-> js.stats]

ArmJj(revset, oc, nc, so) == JjArm(revset, jj_diff_stats(revset, oc, nc, so))

ArmGit(extra, so) ==
    [pre |-> {}, preFails |-> {},
     listCmd |-> run_git_diff_cmd(extra),
     statCmds |-> {git_diff_stats_cmd(extra)},
     statFails |-> IF IsSome(so) THEN {} ELSE {"stats"},
     stats |-> git_diff_stats(so)]

ArmJjUnstaged(so) ==
    [pre |-> {}, preFails |-> {},
     listCmd |-> run_jj_diff_uncommitted_cmd,
     statCmds |-> {jj_diff_stats_uncommitted_cmd},
     statFails |-> {},
     stats |-> jj_diff_stats_uncommitted(so)]

Arm(mb, so, oc, nc) ==
    IF vcs = "git"
    THEN IF mode = "Range" THEN ArmGitRange(mb, so)
         ELSE IF mode = "Unstaged" THEN ArmGit(<<>>, so)
         ELSE ArmGit(<<"--cached">>, so)
    ELSE IF mode = "Range" THEN ArmJj(range, oc, nc, so)
         ELSE IF mode = "Unstaged" THEN ArmJjUnstaged(so)
         ELSE ArmJj("@", oc, nc, so)

Listing(o) == IF vcs = "git" THEN run_git_diff(o) ELSE run_jj_diff(o)

\* the `?` on the listing, then the stats
Listed(kind, res, arm) ==
    /\ listing' = kind
    /\ IF res.tag = "Err"
       THEN /\ result' = res
            /\ pc' = "done"
            /\ issued' = issued \cup SpawnAll(arm.pre \cup {arm.listCmd}, 0, "pre")
            /\ failed' = failed \cup arm.preFails
            /\ UNCHANGED <<files, stats>>
       ELSE /\ files' = res.val
            /\ stats' = arm.stats
            /\ pc' = "fanout"
            /\ issued' = issued \cup
                   SpawnAll(arm.pre \cup {arm.listCmd} \cup arm.statCmds, 0, "pre")
            /\ failed' = failed \cup arm.preFails \cup arm.statFails
            /\ UNCHANGED result

\* lib.rs 479-513: list the files (a failure ends the call) and get the stats
GetFilesAndStats ==
    /\ pc = "start"
    /\ \E o \in ListOutcomes, mb \in MergeBaseOutcomes, so \in StatsOutputs,
          oc \in CommitOutputs, nc \in CommitOutputs :
        Listed(o.kind, Listing(o), Arm(mb, so, oc, nc))
    /\ UNCHANGED <<mode, vcs, range, refs, wpc, slots, display_files, renames>>
    /\ UNCHANGED fnVars

\* the content addresses of the jj Range arm, lib.rs 531-532
JjRefsOf(revset, rg) == <<JjOldRev(revset, rg), JjNewRev(revset, rg)>>

jj_content_refs(revset) == JjRefsOf(revset, parse_jj_range(revset))

\* the content addresses of the Range arms, lib.rs 518 and 531-532; the other
\* arms address their content by constants
ContentRefs(mb) ==
    IF mode # "Range" THEN <<"", "">>
    ELSE IF vcs = "git" THEN parse_git_range(range, mb)
    ELSE jj_content_refs(range)

\* the second merge-base lookup, made by parse_git_range at lib.rs 518
SecondMergeBase(three, mb) ==
    /\ issued' = issued \cup
           (IF mode = "Range" /\ vcs = "git" /\ IsSome(three)
            THEN {Spawned(git_merge_base_cmd(three[1][1], three[1][2]), 0, "fanout")}
            ELSE {})
    /\ failed' = failed \cup
           (IF mode = "Range" /\ vcs = "git" /\ IsSome(three) /\ ~IsSome(mb)
            THEN {"merge_base"} ELSE {})

\* lib.rs 516-534: resolve the content addresses, then fan the files out
FanOut ==
    /\ pc = "fanout"
    /\ \E mb \in MergeBaseOutcomes :
        /\ refs' = ContentRefs(mb)
        /\ SecondMergeBase(split_once(range, "..."), mb)
    /\ wpc' = [i \in 1..Len(files) |-> "run"]
    /\ slots' = [i \in 1..Len(files) |-> None]
    /\ pc' = "par"
    /\ UNCHANGED <<mode, vcs, range, listing, files, stats, display_files, renames, result>>
    /\ UNCHANGED fnVars

\* an old side that reads the current revision for jj, whatever the scope
OldFetchAtCurrent(old_path, ok) ==
    IF vcs = "git"
    THEN IF mode = "Range"
         THEN [cmds |-> {git_file_content_cmd(refs[1], old_path)},
               content |-> git_file_content(refs[1], old_path, ok)]
         ELSE IF mode = "Unstaged"
         THEN [cmds |-> {git_index_content_cmd(old_path)},
               content |-> git_index_content(old_path, ok)]
         ELSE [cmds |-> {git_file_content_cmd("HEAD", old_path)},
               content |-> git_file_content("HEAD", old_path, ok)]
    ELSE IF mode = "Range"
         THEN [cmds |-> {jj_file_content_cmd(refs[1], old_path)},
               content |-> jj_file_content(refs[1], old_path, ok)]
         ELSE [cmds |-> {jj_file_content_cmd("@", old_path)},
               content |-> jj_file_content("@", old_path, ok)]

\* the old-side lookup of each arm of the second match, lib.rs 524-579
OldFetch(old_path, ok) ==
    IF vcs = "git"
    THEN IF mode = "Range"
         THEN [cmds |-> {git_file_content_cmd(refs[1], old_path)},
               content |-> git_file_content(refs[1], old_path, ok)]
         ELSE IF mode = "Unstaged"
         THEN [cmds |-> {git_index_content_cmd(old_path)},
               content |-> git_index_content(old_path, ok)]
         ELSE [cmds |-> {git_file_content_cmd("HEAD", old_path)},
               content |-> git_file_content("HEAD", old_path, ok)]
    ELSE IF mode = "Range"
         THEN [cmds |-> {jj_file_content_cmd(refs[1], old_path)},
               content |-> jj_file_content(refs[1], old_path, ok)]
         ELSE [cmds |-> {jj_file_content_cmd("@-", old_path)},
               content |-> jj_file_content("@-", old_path, ok)]

\* the new-side lookup of each arm, lib.rs 525-580
NewFetch(new_path, rootOk, ok) ==
    IF mode = "Unstaged"
    THEN [cmds |-> {IF vcs = "git" THEN git_root_cmd ELSE jj_root_cmd}
                       \cup (IF rootOk THEN {read_to_string_cmd(new_path)} ELSE {}),
          content |-> working_tree_content_for_vcs(new_path, vcs, rootOk, ok)]
    ELSE IF vcs = "git"
    THEN IF mode = "Range"
         THEN [cmds |-> {git_file_content_cmd(refs[2], new_path)},
               content |-> git_file_content(refs[2], new_path, ok)]
         ELSE [cmds |-> {git_index_content_cmd(new_path)},
               content |-> git_index_content(new_path, ok)]
    ELSE IF mode = "Range"
         THEN [cmds |-> {jj_file_content_cmd(refs[2], new_path)},
               content |-> jj_file_content(refs[2], new_path, ok)]
         ELSE [cmds |-> {jj_file_content_cmd("@", new_path)},
               content |-> jj_file_content("@", new_path, ok)]

\* a worker that asks for the stats of its own file
ProcessedWithStats(i, pf, old, new, rootOk) ==
    /\ slots' = [slots EXCEPT ![i] =
           Some(process_prepared_file(pf.file, into_lines(old.content),
                                      into_lines(new.content),
                                      pf.file_stats, pf.moved_from))]
    /\ issued' = issued
           \cup SpawnAll(old.cmds \cup new.cmds \cup {git_diff_stats_cmd(<<pf.new_path>>)},
                         i, "par")
    /\ failed' = failed
           \cup (IF ~IsSome(old.content) \/ (rootOk /\ ~IsSome(new.content))
                 THEN {"content"} ELSE {})
           \cup (IF ~rootOk THEN {"root"} ELSE {})

\* the end of the map closure: the file is processed into its slot
Processed(i, pf, old, new, rootOk) ==
    /\ slots' = [slots EXCEPT ![i] =
           Some(process_prepared_file(pf.file, into_lines(old.content),
                                      into_lines(new.content),
                                      pf.file_stats, pf.moved_from))]
    /\ issued' = issued \cup SpawnAll(old.cmds \cup new.cmds, i, "par")
    /\ failed' = failed
           \cup (IF ~IsSome(old.content) \/ (rootOk /\ ~IsSome(new.content))
                 THEN {"content"} ELSE {})
           \cup (IF ~rootOk THEN {"root"} ELSE {})

Fetched(i, pf, okOld, okNew, rootOk) ==
    Processed(i, pf, OldFetch(pf.old_path, okOld), NewFetch(pf.new_path, rootOk, okNew),
              rootOk)

\* the map closure run for file i by a pool thread, lib.rs 521-527 and its
\* five siblings; the workers run in any order
Worker(i) ==
    /\ pc = "par"
    /\ i \in 1..Len(files)
    /\ wpc[i] = "run"
    /\ \E okOld \in BOOLEAN, okNew \in BOOLEAN,
          rootOk \in (IF mode = "Unstaged" THEN BOOLEAN ELSE {TRUE}) :
        Fetched(i, prepare_file_for_display(files[i], stats), okOld, okNew, rootOk)
    /\ wpc' = [wpc EXCEPT ![i] = "done"]
    /\ UNCHANGED <<mode, vcs, range, pc, listing, files, stats, refs, display_files,
                   renames, result>>
    /\ UNCHANGED fnVars

\* the join of collect(), lib.rs 528: every worker has finished
Collect ==
    /\ pc = "par"
    /\ \A i \in 1..Len(files) : wpc[i] = "done"
    /\ display_files' = collect(slots)
    /\ pc' = "renames"
    /\ UNCHANGED <<mode, vcs, range, listing, files, stats, refs, wpc, slots, renames,
                   result, failed, issued>>
    /\ UNCHANGED fnVars

\* lib.rs 591-618, given the rename map
Returned(rn) ==
    /\ renames' = rn
    /\ result' = Ok(reconcile(display_files, rn))

\* lib.rs 586-618: get the rename map, apply it, return the list
Reconcile ==
    /\ pc = "renames"
    /\ \E out \in (IF vcs = "git" THEN GitRenameOutputs ELSE JjRenameOutputs) :
        /\ Returned(IF vcs = "git" THEN git_rename_map(out) ELSE jj_rename_map(out))
        /\ failed' = failed \cup (IF IsSome(out) THEN {} ELSE {"rename"})
    /\ issued' = issued \cup
           {Spawned(IF vcs = "git" THEN git_rename_map_cmd(mode, range)
                    ELSE jj_rename_map_cmd(mode, range), 0, "renames")}
    /\ pc' = "done"
    /\ UNCHANGED <<mode, vcs, range, listing, files, stats, refs, wpc, slots,
                   display_files>>
    /\ UNCHANGED fnVars

\* no pure function is being applied
FnIdle ==
    /\ fn = "none"
    /\ fnIn = <<>>
    /\ fnOut = None

\* run_diff, run_diff_unstaged, run_diff_staged, lib.rs 622-634: one call
Init ==
    /\ mode \in Modes
    /\ vcs \in VcsKinds
    /\ range \in (IF mode = "Range"
                  THEN (IF vcs = "git" THEN GitRanges ELSE JjRanges) ELSE {""})
    /\ pc = "start"
    /\ listing = "none"
    /\ files = <<>>
    /\ stats = EmptyMap
    /\ refs = <<"", "">>
    /\ wpc = <<>>
    /\ slots = <<>>
    /\ display_files = <<>>
    /\ renames = EmptyMap
    /\ result = Pending
    /\ failed = {}
    /\ issued = {}
    /\ FnIdle

Next ==
    \/ GetFilesAndStats
    \/ FanOut
    \/ \E i \in 1..MaxFiles : Worker(i)
    \/ Collect
    \/ Reconcile

Spec == Init /\ [][Next]_vars

(***************************************************************************)
(* The pure functions on their own: one input is drawn, the function is    *)
(* applied once.  Inputs are built from short segments, so that arrows,    *)
(* braces, dots, tabs and blanks meet in every order.                      *)
(***************************************************************************)
MaxPathSegs == 5
MaxRangeSegs == 5
MaxLines == 2

Longer(S, segs) == S \cup {s \o g : s \in S, g \in segs}

RECURSIVE StringsUpTo(_, _)
StringsUpTo(segs, n) == IF n = 0 THEN {""} ELSE Longer(StringsUpTo(segs, n - 1), segs)

\* at most n lines of pool, each ended by a newline
OneMoreLine(S, pool) == S \cup {t \o l \o "\n" : t \in S, l \in pool}

RECURSIVE TextsUpTo(_, _)
TextsUpTo(pool, n) == IF n = 0 THEN {""} ELSE OneMoreLine(TextsUpTo(pool, n - 1), pool)

PathSegs == {"a", "b", "{", "}", " => ", " -> ", " "}
PathExamples ==
    {"a/{old => new}/b", "old.txt => new.txt", "plain.txt", "src/lib.rs",
     "src/old.rs => src/new.rs", "src/{old => new}.rs", "src/old.rs -> src/new.rs"}
PathInputs == StringsUpTo(PathSegs, MaxPathSegs) \cup PathExamples

RangeSegs == {"a", "b", ".", " "}
RangeExamples == {"abc123", "main..feature", "..HEAD", "main...feature", "main@origin..@", "@"}
RangeInputs == StringsUpTo(RangeSegs, MaxRangeSegs) \cup RangeExamples

GitLines ==
    {st \o "\t" \o old \o "\t" \o new :
        st \in {"R100", "M"}, old \in {"a", "b", ""}, new \in {"a", "b", ""}}
        \cup {"R100\ta", "M\ta", "M c.txt", " R090\ta\t b "}
GitRenameInputs ==
    TextsUpTo(GitLines, MaxLines) \cup {"R090\ta.txt\tb.txt\nM c.txt\n", "R100\ta\tb"}

JjLines ==
    {pre \o expr :
        pre \in {"R ", "M ", "R"},
        expr \in {"a => b", "b => a", "{a => b}", "a", "a => a", " => b", "x/{a -> b}/y"}}
JjRenameInputs ==
    TextsUpTo(JjLines, MaxLines) \cup {"R a.txt => b.txt\nA c.txt\n", "  R a => b"}

Hash == "0123456789abcdef0123456789abcdef01234567"
\* lines jj log may print: a hash, a hash cut short, one too long, one with a
\* letter outside a-f, one in capitals, nothing, blanks, a hash among blanks
CommitLines ==
    {Hash, SubSeq(Hash, 1, 39), Hash \o "0", "g" \o SubSeq(Hash, 2, 40),
     "0123456789ABCDEF0123456789abcdef01234567", "", "  ", "  " \o Hash \o " "}

\* None: the command failed; Some(stdout) otherwise
CommitInputs ==
    {None} \cup {Some(t) : t \in TextsUpTo(CommitLines, MaxLines) \cup {Hash, Hash \o "\r\n"}}

FnNames ==
    {"split_display_path", "parse_git_range", "parse_jj_range",
     "parse_git_name_status_renames", "parse_jj_summary_renames", "jj_to_git_commit"}

FnInputs(f) ==
    IF f = "split_display_path" THEN PathInputs
    ELSE IF f \in {"parse_git_range", "parse_jj_range"} THEN RangeInputs
    ELSE IF f = "parse_git_name_status_renames" THEN GitRenameInputs
    ELSE IF f = "parse_jj_summary_renames" THEN JjRenameInputs
    ELSE CommitInputs

\* no call is being made
CallIdle ==
    /\ mode = "Unstaged"
    /\ vcs = "git"
    /\ range = ""
    /\ pc = "idle"
    /\ listing = "none"
    /\ files = <<>>
    /\ stats = EmptyMap
    /\ refs = <<"", "">>
    /\ wpc = <<>>
    /\ slots = <<>>
    /\ display_files = <<>>
    /\ renames = EmptyMap
    /\ result = Pending
    /\ failed = {}
    /\ issued = {}

InitFn ==
    /\ CallIdle
    /\ fn \in FnNames
    /\ fnIn \in FnInputs(fn)
    /\ fnOut = None

Applied(f, out) ==
    /\ fn = f
    /\ fnOut = None
    /\ fnOut' = Some(out)
    /\ UNCHANGED <<fn, fnIn>>
    /\ UNCHANGED callVars

ApplySplitDisplayPath == Applied("split_display_path", split_display_path(fnIn))

\* env is what git_merge_base answered
ApplyParseGitRange ==
    \E mb \in MergeBaseOutcomes :
        Applied("parse_git_range", [env |-> mb, val |-> parse_git_range(fnIn, mb)])

\* the range as parsed, and the content addresses run_diff_impl derives from it
ApplyParseJjRange ==
    Applied("parse_jj_range", [val |-> parse_jj_range(fnIn), refs |-> jj_content_refs(fnIn)])

ApplyGitRenames ==
    Applied("parse_git_name_status_renames", parse_git_name_status_renames(fnIn))

ApplyJjRenames == Applied("parse_jj_summary_renames", parse_jj_summary_renames(fnIn))

ApplyJjToGitCommit == Applied("jj_to_git_commit", jj_to_git_commit(fnIn))

NextFn ==
    \/ ApplySplitDisplayPath
    \/ ApplyParseGitRange
    \/ ApplyParseJjRange
    \/ ApplyGitRenames
    \/ ApplyJjRenames
    \/ ApplyJjToGitCommit

SpecFn == InitFn /\ [][NextFn]_vars

(***************************************************************************)
(* Properties of one call.                                                 *)
(***************************************************************************)
ListingFailures == {"spawn_fail", "nonzero", "parse_fail"}
EnrichmentFailures == {"merge_base", "stats", "revset", "content", "root", "rename"}

Returned_Ok == pc = "done" /\ result.tag = "Ok"

\* the output entry made of raw entry i, if it was kept
OutputOf(i) == {k \in 1..Len(result.val) : result.val[k].chunks = files[i].chunks}

\* C1: the call returns an error exactly when its listing command could not
\* be spawned, exited non-zero or printed what does not parse; a failed
\* stats, rename, merge-base, revset, root or content lookup never makes the
\* call an error, and the file list is still returned
ErrorOnlyFromListing ==
    /\ failed \subseteq EnrichmentFailures
    /\ pc # "done" => result = Pending
    /\ pc = "done" =>
        /\ result.tag \in {"Ok", "Err"}
        /\ (result.tag = "Err") <=> (listing \in ListingFailures)
        /\ (listing = "ok" /\ renames = EmptyMap) =>
               /\ Len(result.val) = Len(files)
               /\ \A i \in 1..Len(files) : OutputOf(i) = {i}

\* a call that lost its stats, its rename map and a file's content, and
\* returned its list
ErrorOnlyFromListingWitness ==
    /\ Returned_Ok
    /\ {"stats", "rename", "content"} \subseteq failed
    /\ Len(result.val) > 0

\* C2: each worker fills the slot of its own raw entry, whichever finishes
\* first, and the returned list is the raw list in its order with some
\* entries left out: nothing is added, nothing is reordered
RawOrderKept ==
    /\ pc = "par" =>
           \A i \in 1..Len(slots) :
               IsSome(slots[i]) => slots[i][1].chunks = files[i].chunks
    /\ Returned_Ok =>
        /\ Len(result.val) <= Len(files)
        /\ \A k \in 1..Len(result.val) :
               \E i \in 1..Len(files) : result.val[k].chunks = files[i].chunks
        /\ \A k, l \in 1..Len(result.val) :
               k < l => result.val[k].chunks < result.val[l].chunks

\* two raw entries, both returned
RawOrderKeptWitness ==
    /\ Returned_Ok
    /\ Len(files) = 2
    /\ Len(result.val) = 2
    /\ "content" \in failed

\* C3: no two entries of the returned list have the same path
OnePerNewPath ==
    Returned_Ok =>
        \A k, l \in 1..Len(result.val) :
            k # l => result.val[k].path # result.val[l].path

\* the rename map applied as two passes over the collected list: first every
\* entry whose path is a key is marked, then every Deleted entry whose path
\* is a value is removed
MarkRenamed(d, rn) ==
    IF \E p \in rn : p[1] = d.path
    THEN [d EXCEPT !.moved_from = Some((CHOOSE p \in rn : p[1] = d.path)[2]),
                   !.status = "Created"]
    ELSE d

Marked(ds, rn) == [i \in 1..Len(ds) |-> MarkRenamed(ds[i], rn)]

IsDeletedOld(d, rn) == d.status = "Deleted" /\ \E p \in rn : p[2] = d.path

WithoutDeletedOld(ds, rn) == SelectSeq(ds, LAMBDA d : ~IsDeletedOld(d, rn))

\* the raw list [{n, Created}, {o, Deleted}] under the map {n -> o}
RenamePairListed ==
    /\ Len(files) = 2
    /\ files[1].path = "n" /\ files[1].status = "Created"
    /\ files[2].path = "o" /\ files[2].status = "Deleted"
    /\ renames = {<<"n", "o">>}

\* C4: with a non-empty rename map, an entry whose path is a key gets the
\* mapped old path as moved_from and the status Created, and a Deleted entry
\* whose path is a value is removed; [{n, Created}, {o, Deleted}] under
\* {n -> o} comes back as the one entry n, Created, moved from o
RenameMapApplied ==
    Returned_Ok =>
        /\ renames # EmptyMap =>
               result.val = WithoutDeletedOld(Marked(display_files, renames), renames)
        /\ renames = EmptyMap => result.val = display_files
        /\ RenamePairListed =>
               /\ Len(result.val) = 1
               /\ result.val[1].path = "n"
               /\ result.val[1].status = "Created"
               /\ result.val[1].moved_from = Some("o")

RenameMapAppliedWitness == Returned_Ok /\ RenamePairListed

\* C5: an entry is left out only if it is Deleted, its path is the old path
\* of a rename, and the list holds the entry of that rename's new path
DroppedOnlyWithPartner ==
    Returned_Ok =>
        \A i \in 1..Len(files) :
            OutputOf(i) = {} =>
                /\ display_files[i].status = "Deleted"
                /\ \E p \in renames :
                       /\ p[2] = display_files[i].path
                       /\ \E j \in 1..Len(display_files) : display_files[j].path = p[1]

\* C10: a raw entry whose path splits into old # new, the rename map having
\* no entry for new, is returned with path new, status Created and
\* moved_from old; a plain entry whose path is neither a key nor a value of
\* the map is returned with its path and status and no moved_from
ArrowEntryWithoutRename ==
    Returned_Ok =>
        \A i \in 1..Len(files) :
            /\ ( /\ split_display_path(files[i].path)[1] # split_display_path(files[i].path)[2]
                 /\ split_display_path(files[i].path)[2] \notin Keys(renames) ) =>
                   \E k \in OutputOf(i) :
                       /\ result.val[k].path = split_display_path(files[i].path)[2]
                       /\ result.val[k].status = "Created"
                       /\ result.val[k].moved_from =
                              Some(split_display_path(files[i].path)[1])
            /\ ( /\ split_display_path(files[i].path) = <<files[i].path, files[i].path>>
                 /\ files[i].path \notin Keys(renames) \cup Values(renames) ) =>
                   \E k \in OutputOf(i) :
                       /\ result.val[k].path = files[i].path
                       /\ result.val[k].status = files[i].status
                       /\ result.val[k].moved_from = None

\* an arrow entry listed as Deleted and a plain entry, under a rename map
\* that names neither
ArrowEntryWithoutRenameWitness ==
    /\ Returned_Ok
    /\ renames = {<<"y", "x">>}
    /\ \E i \in 1..Len(files) : files[i].path = "o => n" /\ files[i].status = "Deleted"
    /\ \E i \in 1..Len(files) : files[i].path = "o" /\ files[i].status = "Deleted"

(***************************************************************************)
(* Properties of the pure functions.                                       *)
(***************************************************************************)
Contains(s, pat) == Occurrences(s, pat) # {}

\* what stands before and after the first occurrence of pat in s
Before(s, pat) == SubSeq(s, 1, SetMin(Occurrences(s, pat)) - 1)
After(s, pat) == SubSeq(s, SetMin(Occurrences(s, pat)) + Len(pat), Len(s))

Blank(s) == \A i \in 1..Len(s) : IsWhitespace(CharAt(s, i))

AppliedFn(f) == fn = f /\ IsSome(fnOut)

\* a line of the rename-status output that reports a rename
GitRenameLine(line) == Len(trim(line)) > 0 /\ CharAt(trim(line), 1) = "R"
JjRenameLine(line) == Len(trim(line)) > 1 /\ SubSeq(trim(line), 1, 2) = "R "

HasLine(text, Class(_)) == \E i \in 1..Len(lines(text)) : Class(lines(text)[i])

RenamePairsOf(Class(_)) ==
    \A p \in fnOut[1] :
        /\ p[1] # ""
        /\ p[2] # ""
        /\ p[1] # p[2]
        /\ HasLine(fnIn, Class)

\* C6: the rename map built from a rename-status output of either backend
\* holds pairs only if the output has a rename line, and every pair has a
\* non-empty old path, a non-empty new path and old # new
RenamePairsWellFormed ==
    /\ AppliedFn("parse_git_name_status_renames") => RenamePairsOf(GitRenameLine)
    /\ AppliedFn("parse_jj_summary_renames") => RenamePairsOf(JjRenameLine)

GitRangeExample(r, old, new) ==
    (fnIn = r /\ ~IsSome(fnOut[1].env)) => fnOut[1].val = <<old, new>>

\* C7: a git range holding "..." is (merge-base, B), or (A^, B) when the
\* merge-base command failed; otherwise one holding ".." is its two literal
\* sides, an empty one included; otherwise R is (R^, R)
GitRangeClassified ==
    AppliedFn("parse_git_range") =>
        /\ Contains(fnIn, "...") =>
               /\ fnOut[1].val[2] = After(fnIn, "...")
               /\ IsSome(fnOut[1].env) => fnOut[1].val[1] = fnOut[1].env[1]
               /\ ~IsSome(fnOut[1].env) => fnOut[1].val[1] = Before(fnIn, "...") \o "^"
        /\ (~Contains(fnIn, "...") /\ Contains(fnIn, "..")) =>
               fnOut[1].val = <<Before(fnIn, ".."), After(fnIn, "..")>>
        /\ ~Contains(fnIn, "..") => fnOut[1].val = <<fnIn \o "^", fnIn>>
        /\ GitRangeExample("abc123", "abc123^", "abc123")
        /\ GitRangeExample("main..feature", "main", "feature")
        /\ GitRangeExample("..HEAD", "", "HEAD")
        /\ GitRangeExample("main...feature", "main^", "feature")

\* a three-dot range whose merge-base lookup failed
GitRangeClassifiedWitness ==
    /\ AppliedFn("parse_git_range")
    /\ fnIn = "a...b"
    /\ fnOut[1] = [env |-> None, val |-> <<"a^", "b">>]

JjRangeResult(recognised, old, new) ==
    /\ IsSome(fnOut[1].val) <=> recognised
    /\ recognised =>
           /\ fnOut[1].val = Some(<<old, new>>)
           /\ fnOut[1].refs = <<old, new>>
    /\ ~recognised =>
           fnOut[1].refs = <<"roots(" \o fnIn \o ")-", "heads(" \o fnIn \o ")">>

\* C8 as stated: a jj range is recognised only if it holds ".." and both
\* sides are non-empty after trimming, old and new being the trimmed sides;
\* any other string is addressed as roots(revset)- and heads(revset)
JjRangeTrimmed ==
    AppliedFn("parse_jj_range") =>
        IF Contains(fnIn, "..")
        THEN JjRangeResult(~Blank(Before(fnIn, "..")) /\ ~Blank(After(fnIn, "..")),
                           trim(Before(fnIn, "..")), trim(After(fnIn, "..")))
        ELSE JjRangeResult(FALSE, "", "")

\* C8: a jj range is recognised exactly if it holds ".." and what stands
\* before and after its first ".." is non-empty, blanks counting; old and
\* new are those two sides as written; any other string is addressed as
\* roots(revset)- and heads(revset)
JjRangeLiteral ==
    AppliedFn("parse_jj_range") =>
        IF Contains(fnIn, "..")
        THEN JjRangeResult(Before(fnIn, "..") # "" /\ After(fnIn, "..") # "",
                           Before(fnIn, ".."), After(fnIn, ".."))
        ELSE JjRangeResult(FALSE, "", "")

\* a range written with a blank before the dots
JjRangeLiteralWitness ==
    /\ AppliedFn("parse_jj_range")
    /\ fnIn = "a ..b"
    /\ fnOut[1].val = Some(<<"a ", "b">>)
    /\ fnOut[1].refs = <<"a ", "b">>

\* s is l, arrow, r at the first occurrence of arrow, neither side blank
SplitsAt(s, arrow) ==
    Contains(s, arrow) /\ ~Blank(Before(s, arrow)) /\ ~Blank(After(s, arrow))

\* the arrow a string splits at: " => " if it can, else " -> " if it can
ArrowFor(s) ==
    IF SplitsAt(s, " => ") THEN " => " ELSE IF SplitsAt(s, " -> ") THEN " -> " ELSE ""

\* the part between the first "{" and the last "}" that follows it
Braced(s) == Contains(s, "{") /\ SetMax(Occurrences(s, "}") \cup {0}) > SetMin(Occurrences(s, "{"))
BracePrefix(s) == SubSeq(s, 1, SetMin(Occurrences(s, "{")) - 1)
BraceInner(s) == SubSeq(s, SetMin(Occurrences(s, "{")) + 1, SetMax(Occurrences(s, "}")) - 1)
BraceSuffix(s) == SubSeq(s, SetMax(Occurrences(s, "}")) + 1, Len(s))

BraceForm(s) == Braced(s) /\ ArrowFor(BraceInner(s)) # ""
FlatForm(s) == ~BraceForm(s) /\ ArrowFor(s) # ""

SplitExample(p, old, new) == fnIn = p => fnOut[1] = <<old, new>>

\* C9: a display path prefix{old => new}suffix (or ->) with both braced
\* sides non-empty after trimming splits into prefix+old+suffix and
\* prefix+new+suffix; failing that, old => new (or ->) splits into the
\* trimmed old and new; failing that, the path is returned as both, and
\* splitting it again returns the same
DisplayPathSplit ==
    AppliedFn("split_display_path") =>
        /\ BraceForm(fnIn) =>
               fnOut[1] =
                   <<BracePrefix(fnIn)
                         \o trim(Before(BraceInner(fnIn), ArrowFor(BraceInner(fnIn))))
                         \o BraceSuffix(fnIn),
                     BracePrefix(fnIn)
                         \o trim(After(BraceInner(fnIn), ArrowFor(BraceInner(fnIn))))
                         \o BraceSuffix(fnIn)>>
        /\ FlatForm(fnIn) =>
               fnOut[1] = <<trim(Before(fnIn, ArrowFor(fnIn))),
                            trim(After(fnIn, ArrowFor(fnIn)))>>
        /\ (~BraceForm(fnIn) /\ ~FlatForm(fnIn)) =>
               /\ fnOut[1] = <<fnIn, fnIn>>
               /\ split_display_path(fnOut[1][2]) = fnOut[1]
        /\ SplitExample("a/{old => new}/b", "a/old/b", "a/new/b")
        /\ SplitExample("old.txt => new.txt", "old.txt", "new.txt")
        /\ SplitExample("plain.txt", "plain.txt", "plain.txt")

\* the brace example
DisplayPathSplitWitness ==
    /\ AppliedFn("split_display_path")
    /\ fnIn = "a/{old => new}/b"
    /\ fnOut[1] = <<"a/old/b", "a/new/b">>

(***************************************************************************)
(* Revset-to-commit translation.                                           *)
(***************************************************************************)
IsHash(l) == Len(l) = 40 /\ \A i \in 1..Len(l) : IsHexDigit(CharAt(l, i))

\* the lines of a text that are not empty, as written
WrittenLines(text) == SelectSeq(lines(text), LAMBDA l : l # "")

\* its lines without the blanks around them, those left empty dropped
TrimmedLines(text) ==
    SelectSeq([i \in 1..Len(lines(text)) |-> trim(lines(text)[i])], LAMBDA l : l # "")

CommitIffOneHash(ls) ==
    /\ IsSome(fnOut[1]) <=> (IsSome(fnIn) /\ Len(ls) = 1 /\ IsHash(ls[1]))
    /\ IsSome(fnOut[1]) => fnOut[1] = Some(ls[1])

\* C11 as stated: the translation returns a commit only when the query
\* succeeds and its output has exactly one non-empty line, that line being
\* exactly 40 hexadecimal characters; every other output gives None
CommitFromOneHexLine ==
    AppliedFn("jj_to_git_commit") =>
        CommitIffOneHash(IF IsSome(fnIn) THEN WrittenLines(fnIn[1]) ELSE <<>>)

\* C11: the translation returns a commit exactly when the query succeeds
\* and its output, each line trimmed and the lines left empty dropped, is one
\* line of exactly 40 hexadecimal characters, and the commit is that trimmed
\* line; a failed command, no line, two or more lines, a wrong length or a
\* character that is not a hex digit give None
CommitFromOneTrimmedHexLine ==
    AppliedFn("jj_to_git_commit") =>
        CommitIffOneHash(IF IsSome(fnIn) THEN TrimmedLines(fnIn[1]) ELSE <<>>)

\* a hash printed among blanks and followed by an empty line
CommitFromOneTrimmedHexLineWitness ==
    /\ AppliedFn("jj_to_git_commit")
    /\ fnIn = Some("  " \o Hash \o " \n\n")
    /\ fnOut[1] = Some(Hash)

(***************************************************************************)
(* Where a worker reads its two contents.                                  *)
(***************************************************************************)
\* what worker i has spawned or read
WorkerReads(i) == {e.cmd : e \in {x \in issued : x.by = i /\ x.phase = "par"}}

WorkerDone(i) == pc \in {"par", "renames", "done"} /\ i \in 1..Len(files) /\ wpc[i] = "done"

OldSide(i) == split_display_path(files[i].path)[1]
NewSide(i) == split_display_path(files[i].path)[2]

StagingArea(p) == <<"git", "show", ":" \o p>>
TipOfHistory(p) == <<"git", "show", "HEAD:" \o p>>
JjRevision(rev, p) == <<"jj", "file", "show", "-r", rev, p>>
RootLookups == {<<"git", "rev-parse", "--show-toplevel">>, <<"jj", "root">>}
WorkingTree(p) == <<"read_to_string", p>>

\* worker i read its old content by old and looked for its new content in
\* the working tree, reading it if the root was found
ReadsWorkingTree(i, old) ==
    /\ WorkerReads(i) \ (RootLookups \cup {WorkingTree(NewSide(i))}) = {old}
    /\ WorkerReads(i) \cap RootLookups # {}
    /\ WorkingTree(NewSide(i)) \in WorkerReads(i) \/ "root" \in failed

\* jjUnstagedOld: the revision the unstaged scope of jj reads its old side at
ContentAddressed(jjUnstagedOld) ==
    \A i \in 1..Len(files) :
        (WorkerDone(i) /\ mode # "Range") =>
            IF mode = "Unstaged"
            THEN IF vcs = "git"
                 THEN ReadsWorkingTree(i, StagingArea(OldSide(i)))
                 ELSE ReadsWorkingTree(i, JjRevision(jjUnstagedOld, OldSide(i)))
            ELSE IF vcs = "git"
                 THEN WorkerReads(i) = {TipOfHistory(OldSide(i)), StagingArea(NewSide(i))}
                 ELSE WorkerReads(i) =
                          {JjRevision("@-", OldSide(i)), JjRevision("@", NewSide(i))}

Prefix(c, n) == IF Len(c) < n THEN c ELSE SubSeq(c, 1, n)

\* the commands that print stats, and those jj_diff_stats resolves revsets by
IsStatsCmd(c) == Prefix(c, 3) \in {<<"git", "diff", "--numstat">>, <<"jj", "diff", "--stat">>}
IsResolveCmd(c) == Prefix(c, 2) = <<"jj", "log">>
IsRenameCmd(c) ==
    \/ Prefix(c, 4) = <<"git", "diff", "--name-status", "-M">>
    \/ (Prefix(c, 2) = <<"jj", "diff">> /\ c[Len(c)] = "--summary")

StatsIssued == {e \in issued : IsStatsCmd(e.cmd)}
RenamesIssued == {e \in issued : IsRenameCmd(e.cmd)}

FannedOut == pc \in {"par", "renames"} \/ (pc = "done" /\ listing = "ok")

\* C13 as stated: the stats map and the rename map are each computed once
\* and before the first worker starts; no stats or rename-status command is
\* issued during or after the parallel phase
MapsBeforeFanOut ==
    /\ \A e \in StatsIssued \cup RenamesIssued : e.phase = "pre" /\ e.by = 0
    /\ Cardinality(StatsIssued) <= 1
    /\ Cardinality(RenamesIssued) <= 1
    /\ FannedOut => RenamesIssued # {}

\* the stats steps are taken by the calling thread before the fan-out, the
\* rename step by the calling thread after the join, each at most once
MapsIssuedOnce ==
    /\ \A e \in issued :
           (IsStatsCmd(e.cmd) \/ IsResolveCmd(e.cmd)) => (e.phase = "pre" /\ e.by = 0)
    /\ \A e \in RenamesIssued : e.phase = "renames" /\ e.by = 0
    /\ Cardinality(StatsIssued) <= 1
    /\ Cardinality(RenamesIssued) <= 1
    /\ pc # "done" => (RenamesIssued = {} /\ renames = EmptyMap)
    /\ (pc = "done" /\ listing = "ok") => Cardinality(RenamesIssued) = 1
    /\ (FannedOut /\ (vcs = "git" \/ mode = "Unstaged")) => Cardinality(StatsIssued) = 1

\* a step taken after the fan-out leaves the stats map as it is, and only
\* the step that returns sets the rename map
MapsFrozen ==
    /\ pc # "start" => stats' = stats
    /\ pc # "renames" => renames' = renames

\* C13: the stats map is computed once, by the calling thread, before the
\* first worker starts, and is not modified afterwards; the rename map is
\* computed once, by the calling thread, after the last worker has finished,
\* and set once; no stats or rename-status command is issued during the
\* parallel phase
MapsOutsideParallelPhase == [](MapsIssuedOnce) /\ [][MapsFrozen]_vars

\* a call of two files that returned with both maps filled
MapsOutsideParallelPhaseWitness ==
    /\ pc = "done"
    /\ Len(files) = 2
    /\ stats # EmptyMap
    /\ renames # EmptyMap
    /\ Cardinality(StatsIssued) = 1
    /\ Cardinality(RenamesIssued) = 1

(***************************************************************************)
(* The root lookup.                                                        *)
(***************************************************************************)
RootLookupsIssued == {e \in issued : e.cmd \in RootLookups}

\* C14: a call that reads working-tree content issues the root lookup at
\* most once, however many files are listed
RootLookedUpOnce == mode = "Unstaged" => Cardinality(RootLookupsIssued) <= 1

(***************************************************************************)
(* What the listing and the rename-status query compare.                   *)
(***************************************************************************)
IsListingCmd(c) ==
    \/ Prefix(c, 4) = <<"git", "-c", "diff.external=difft", "diff">>
    \/ (Prefix(c, 2) = <<"jj", "diff">> /\ c[Len(c)] = "difft")

\* the arguments that select what is compared: what follows the four fixed
\* words of either git command, what stands between "jj diff" and the jj
\* command's trailing options
GitSelection(c) == SubSeq(c, 5, Len(c))
JjListingSelection(c) == SubSeq(c, 3, Len(c) - 2)
JjRenameSelection(c) == SubSeq(c, 3, Len(c) - 1)

\* the commit git finds as the merge base of a and b
MergeBaseOf(a, b) == "m"

\* the two sides git diff compares, given its selection arguments
GitCompared(args) ==
    IF args = <<>> THEN <<"index", "worktree">>
    ELSE IF args = <<"--cached">> THEN <<"HEAD", "index">>
    ELSE IF Contains(args[1], "...")
    THEN <<MergeBaseOf(Before(args[1], "..."), After(args[1], "...")), After(args[1], "...")>>
    ELSE IF Contains(args[1], "..")
    THEN <<Before(args[1], ".."), After(args[1], "..")>>
    ELSE <<args[1], "worktree">>

ListingCompared ==
    {IF vcs = "git" THEN GitCompared(GitSelection(e.cmd)) ELSE JjListingSelection(e.cmd) :
        e \in {x \in issued : IsListingCmd(x.cmd)}}

RenameQueryCompared ==
    {IF vcs = "git" THEN GitCompared(GitSelection(e.cmd)) ELSE JjRenameSelection(e.cmd) :
        e \in RenamesIssued}

\* C15: the rename-status query of a call compares the old and new sides
\* its listing compares: for a git range A...B, A..B or R the same resolved
\* revisions (R^ against R for a single reference), for the staged and
\* unstaged scopes and for jj the same selection
RenameQueryComparesListing ==
    (pc = "done" /\ listing = "ok") => RenameQueryCompared = ListingCompared

====
